---- MODULE Spec2Model ----
(***************************************************************************)
(* Documents-and-editors state tracking of the main thread: the snapshot   *)
(* (DocumentAndEditorState), the delta computer (compute), the state       *)
(* tracker (MainThreadDocumentAndEditorState) and the delta dispatcher     *)
(* (MainThreadDocumentsAndEditors), with the services they consume.        *)
(***************************************************************************)
EXTENDS Integers, Sequences, FiniteSets, Bags, TLC

(***************************************************************************)
(* Universe of the model.                                                  *)
(***************************************************************************)
\* A model (IModel) is identified with its URI string, uri.toString().
Uris == {"a", "b", "x", "y"}
\* Editors (ICommonCodeEditor) are identified with getId().
EditorIds == {"e1", "e2"}
\* The models an editor is given to display; "b" and "x" need not be known to
\* the model service.
EditorModels == {"a", "b", "x"}
\* Signals followed from the construction of the tracker.
MaxSteps == 4
\* JavaScript's null and undefined, two different values under ===.
Null == "null"
Undefined == "undefined"
\* Every string the comparators see, in the order of JavaScript's < on strings.
StringOrder == <<"a", "b", "e1", "e2", "x", "y">>

\* IModel.isTooLargeForHavingARichMode(): fixed when the model is created.
isTooLargeForHavingARichMode(model) == model \in {"x", "y"}

Range(seq) == {seq[i] : i \in 1..Len(seq)}

\* A value is truthy in an if (...) test: neither null, undefined nor "".
Truthy(v) == v # Null /\ v # Undefined /\ v # ""

(***************************************************************************)
(* vs/base/common/strings compare and vs/base/common/arrays delta, and     *)
(* Array.prototype.sort.                                                   *)
(***************************************************************************)
IndexOf == [s \in Range(StringOrder) |->
                CHOOSE i \in 1..Len(StringOrder) : StringOrder[i] = s]

compare(a, b) ==
    IF IndexOf[a] < IndexOf[b] THEN -1
    ELSE IF IndexOf[a] > IndexOf[b] THEN 1
    ELSE 0

\* namespace cmp
compareModels(a, b) == compare(a, b)

\* compareEditors without the tie-break on the document.
compareEditorsNoTieBreak(a, b) == compare(a.editor, b.editor)

compareEditors(a, b) ==
    LET ret == compare(a.editor, b.editor)
    IN  IF ret = 0 THEN compare(a.document, b.document) ELSE ret

\* A comparator is passed by its name; Call applies it.
Call(cmp, a, b) ==
    IF cmp = "compareModels" THEN compareModels(a, b) ELSE compareEditors(a, b)

\* One linear merge pass over two sorted sequences.
delta(before, after, cmp) ==
    LET walk[i \in 1..(Len(before) + 1), j \in 1..(Len(after) + 1)] ==
            IF i > Len(before)
            THEN [removed |-> <<>>, added |-> SubSeq(after, j, Len(after))]
            ELSE IF j > Len(after)
            THEN [removed |-> SubSeq(before, i, Len(before)), added |-> <<>>]
            ELSE LET n == Call(cmp, before[i], after[j])
                 IN  IF n = 0 THEN walk[i + 1, j + 1]
                     ELSE IF n < 0
                     THEN [removed |-> <<before[i]>> \o walk[i + 1, j].removed,
                           added   |-> walk[i + 1, j].added]
                     ELSE [removed |-> walk[i, j + 1].removed,
                           added   |-> <<after[j]>> \o walk[i, j + 1].added]
    IN  walk[1, 1]

\* arr.sort(cmp): the elements of arr in ascending order of cmp.
sort(arr, cmp) ==
    LET insert(s, v) ==
            LET k == Cardinality({i \in 1..Len(s) : Call(cmp, s[i], v) <= 0})
            IN  SubSeq(s, 1, k) \o <<v>> \o SubSeq(s, k + 1, Len(s))
        sorted[n \in 0..Len(arr)] ==
            IF n = 0 THEN <<>> ELSE insert(sorted[n - 1], arr[n])
    IN  sorted[Len(arr)]

(***************************************************************************)
(* namespace cmp, EditorAndModel, DocumentAndEditorStateDelta,             *)
(* DocumentAndEditorState.                                                 *)
(***************************************************************************)
EditorAndModel(editor, document) ==
    [editor |-> editor, document |-> document, id |-> editor \o "," \o document]

\* The delta with isEmpty looking at the four lists only.
DocumentAndEditorStateDeltaListsOnly(removedDocuments, addedDocuments, removedEditors, addedEditors, oldActiveEditor, newActiveEditor) ==
    [removedDocuments |-> removedDocuments,
     addedDocuments   |-> addedDocuments,
     removedEditors   |-> removedEditors,
     addedEditors     |-> addedEditors,
     oldActiveEditor  |-> oldActiveEditor,
     newActiveEditor  |-> newActiveEditor,
     isEmpty |-> /\ Len(removedDocuments) = 0
                 /\ Len(addedDocuments) = 0
                 /\ Len(removedEditors) = 0
                 /\ Len(addedEditors) = 0]

DocumentAndEditorStateDelta(removedDocuments, addedDocuments, removedEditors, addedEditors, oldActiveEditor, newActiveEditor) ==
    [removedDocuments |-> removedDocuments,
     addedDocuments   |-> addedDocuments,
     removedEditors   |-> removedEditors,
     addedEditors     |-> addedEditors,
     oldActiveEditor  |-> oldActiveEditor,
     newActiveEditor  |-> newActiveEditor,
     isEmpty |-> /\ Len(removedDocuments) = 0
                 /\ Len(addedDocuments) = 0
                 /\ Len(removedEditors) = 0
                 /\ Len(addedEditors) = 0
                 /\ oldActiveEditor = newActiveEditor]

\* The snapshot keeping the sequences in the order they are given in.
DocumentAndEditorStateUnsorted(documents, editors, activeEditor) ==
    [documents    |-> documents,
     editors      |-> editors,
     activeEditor |-> activeEditor]

\* new DocumentAndEditorState(documents, editors, activeEditor)
DocumentAndEditorState(documents, editors, activeEditor) ==
    [documents    |-> sort(documents, "compareModels"),
     editors      |-> sort(editors, "compareEditors"),
     activeEditor |-> activeEditor]

\* The value of _currentState before the first assignment (undefined), kept
\* as a record so that it compares with snapshots.
NoState == [documents |-> <<>>, editors |-> <<>>, activeEditor |-> Undefined,
            absent |-> TRUE]

\* compute reporting the active editors as they are, also when they are equal.
computeReportsActive(before, after) ==
    IF before = NoState
    THEN DocumentAndEditorStateDelta(<<>>, after.documents, <<>>, after.editors,
                                     Undefined, after.activeEditor)
    ELSE LET documentDelta == delta(before.documents, after.documents, "compareModels")
             editorDelta == delta(before.editors, after.editors, "compareEditors")
         IN  DocumentAndEditorStateDelta(
                 documentDelta.removed, documentDelta.added,
                 editorDelta.removed, editorDelta.added,
                 before.activeEditor, after.activeEditor)

\* compute passing the active editor of the first snapshot as the old one.
computeFirstSwapsActive(before, after) ==
    IF before = NoState
    THEN DocumentAndEditorStateDelta(<<>>, after.documents, <<>>, after.editors,
                                     after.activeEditor, Undefined)
    ELSE LET documentDelta == delta(before.documents, after.documents, "compareModels")
             editorDelta == delta(before.editors, after.editors, "compareEditors")
             oldActiveEditor == IF before.activeEditor # after.activeEditor
                                THEN before.activeEditor ELSE Undefined
             newActiveEditor == IF before.activeEditor # after.activeEditor
                                THEN after.activeEditor ELSE Undefined
         IN  DocumentAndEditorStateDelta(
                 documentDelta.removed, documentDelta.added,
                 editorDelta.removed, editorDelta.added,
                 oldActiveEditor, newActiveEditor)

\* compute passing the added elements as removed and the removed as added.
computeSwapsLists(before, after) ==
    IF before = NoState
    THEN DocumentAndEditorStateDelta(<<>>, after.documents, <<>>, after.editors,
                                     Undefined, after.activeEditor)
    ELSE LET documentDelta == delta(before.documents, after.documents, "compareModels")
             editorDelta == delta(before.editors, after.editors, "compareEditors")
             oldActiveEditor == IF before.activeEditor # after.activeEditor
                                THEN before.activeEditor ELSE Undefined
             newActiveEditor == IF before.activeEditor # after.activeEditor
                                THEN after.activeEditor ELSE Undefined
         IN  DocumentAndEditorStateDelta(
                 documentDelta.added, documentDelta.removed,
                 editorDelta.added, editorDelta.removed,
                 oldActiveEditor, newActiveEditor)

\* DocumentAndEditorState.compute(before, after)
compute(before, after) ==
    IF before = NoState
    THEN DocumentAndEditorStateDelta(<<>>, after.documents, <<>>, after.editors,
                                     Undefined, after.activeEditor)
    ELSE LET documentDelta == delta(before.documents, after.documents, "compareModels")
             editorDelta == delta(before.editors, after.editors, "compareEditors")
             oldActiveEditor == IF before.activeEditor # after.activeEditor
                                THEN before.activeEditor ELSE Undefined
             newActiveEditor == IF before.activeEditor # after.activeEditor
                                THEN after.activeEditor ELSE Undefined
         IN  DocumentAndEditorStateDelta(
                 documentDelta.removed, documentDelta.added,
                 editorDelta.removed, editorDelta.added,
                 oldActiveEditor, newActiveEditor)

(***************************************************************************)
(* State.                                                                  *)
(***************************************************************************)
VARIABLES
    models,                  \* IModelService: getModels(), in enumeration order
    codeEditors,             \* ICodeEditorService: listCodeEditors(), in order
    editorModel,             \* editor.getModel() of each editor, or Null
    editorFocused,           \* editor.isFocused() of each editor
    activeWorkbenchEditor,   \* IWorkbenchEditorService.getActiveEditor()
    currentState,            \* MainThreadDocumentAndEditorState._currentState
    toDisposeOnEditorRemove, \* keys of _toDisposeOnEditorRemove
    listeners,               \* editors whose any(...) listener is registered
    toDispose,               \* top-level subscriptions of _toDispose not disposed
    signalled,               \* editors signalled added and not yet signalled removed
    announced,               \* what the deltas fired so far add up to
    textEditors,             \* MainThreadDocumentsAndEditors._editors
    undisposed,              \* ids of the handles created and not disposed (a bag)
    mirrorDocuments,         \* remote side: documents after the payloads so far
    mirrorEditors,           \* remote side: editors after the payloads so far
    localDocuments,          \* local listener: documents announced and not removed
    trace,                   \* what the handler of the last signal did, in order
    steps,                   \* signals and service changes so far
    snapA, snapB, result,    \* inputs and result of compute taken on its own
    documentData,            \* ExtHostDocuments._documentData: uri -> lines
    documentLoader,          \* ExtHostDocuments._documentLoader: uri -> promise
    opening,                 \* $tryOpenDocument requests sent and not completed
    documentContentProviders,\* keys of ExtHostDocuments._documentContentProviders
    subscribed,              \* handles whose onDidChange subscription is alive
    handlePool,              \* ExtHostDocuments._handlePool
    providing,               \* provideTextDocumentContent promises not settled
    hostEditors,             \* keys of ExtHostEditors._editors
    activeEditorId,          \* ExtHostEditors._activeEditorId
    visibleEditorIds,        \* ExtHostEditors._visibleEditorIds
    extTrace                 \* what the last call on the extension host did, in order

services == <<models, codeEditors, editorModel, editorFocused, activeWorkbenchEditor>>
subscriptions == <<toDisposeOnEditorRemove, listeners, toDispose>>
tracker == <<currentState, subscriptions>>
dispatcher == <<textEditors, undisposed, mirrorDocuments, mirrorEditors, localDocuments>>
pure == <<snapA, snapB, result>>
extHostDocuments == <<documentData, documentLoader, opening, documentContentProviders,
                      subscribed, handlePool, providing>>
extHostEditors == <<hostEditors, activeEditorId, visibleEditorIds>>
extHost == <<extHostDocuments, extHostEditors, extTrace>>
mainThread == <<services, tracker, signalled, announced, dispatcher, trace, pure>>
vars == <<mainThread, steps, extHost>>

\* The extension host's objects as their constructors leave them.
ExtHostConstructed ==
    /\ documentData = <<>>
    /\ documentLoader = <<>>
    /\ opening = {}
    /\ documentContentProviders = {}
    /\ subscribed = {}
    /\ handlePool = 0
    /\ providing = {}
    /\ hostEditors = {}
    /\ activeEditorId = Undefined
    /\ visibleEditorIds = <<>>
    /\ extTrace = <<>>

\* The subscriptions the constructor puts in _toDispose.
TopLevelSignals == {"onModelAdded", "onModelRemoved", "onCodeEditorAdd", "onCodeEditorRemove"}

\* The services as one value, as _updateState reads them.
Services(ms, ces, em, ef, awe) ==
    [models |-> ms, codeEditors |-> ces, editorModel |-> em,
     editorFocused |-> ef, activeWorkbenchEditor |-> awe]

Now == Services(models, codeEditors, editorModel, editorFocused, activeWorkbenchEditor)

\* The values getActiveEditor() can have: no active editor, a code editor
\* control, a diff editor control (with its modified editor), another control.
NoWorkbenchEditor == [kind |-> "none", editor |-> Null]
WorkbenchEditors ==
    {NoWorkbenchEditor, [kind |-> "other", editor |-> Null],
     [kind |-> "code", editor |-> "e1"], [kind |-> "diff", editor |-> "e2"]}

Without(seq, v) == SelectSeq(seq, LAMBDA w : w # v)

(***************************************************************************)
(* MainThreadDocumentAndEditorState._updateState                           *)
(***************************************************************************)
\* arr.splice(i, 1), i counted from 0
splice(arr, i) == SubSeq(arr, 1, i) \o SubSeq(arr, i + 2, Len(arr))

\* The loop without the i-- after a splice.
ignoreTooLargeModelsSkipping(arr) ==
    LET loop[n \in 0..Len(arr)] ==
            IF n = 0 THEN [models |-> arr, i |-> 0]
            ELSE LET at == loop[n - 1]
                 IN  IF ~(at.i < Len(at.models)) THEN at
                     ELSE IF isTooLargeForHavingARichMode(at.models[at.i + 1])
                     THEN [models |-> splice(at.models, at.i), i |-> at.i + 1]
                     ELSE [models |-> at.models, i |-> at.i + 1]
    IN  loop[Len(arr)].models

\* for (let i = 0; i < models.length; i++) { if too large: splice(i, 1); i-- }
\* loop[n] is the array and i after n passes through the body; every pass
\* consumes one element of arr, so Len(arr) passes end the loop.
ignoreTooLargeModels(arr) ==
    LET loop[n \in 0..Len(arr)] ==
            IF n = 0 THEN [models |-> arr, i |-> 0]
            ELSE LET at == loop[n - 1]
                 IN  IF ~(at.i < Len(at.models)) THEN at
                     ELSE IF isTooLargeForHavingARichMode(at.models[at.i + 1])
                     THEN [models |-> splice(at.models, at.i), i |-> (at.i - 1) + 1]
                     ELSE [models |-> at.models, i |-> at.i + 1]
    IN  loop[Len(arr)].models

\* The loop over the editors without the test of the too large model.
takeEditorsAlsoTooLarge(svc) ==
    LET list == svc.codeEditors
        loop[n \in 0..Len(list)] ==
            IF n = 0 THEN [editors |-> <<>>, activeEditor |-> Null]
            ELSE LET editor == list[n]
                     model == svc.editorModel[editor]
                 IN  IF Truthy(model)
                     THEN LET apiEditor == EditorAndModel(editor, model)
                          IN  [editors |-> Append(loop[n - 1].editors, apiEditor),
                               activeEditor |->
                                   IF svc.editorFocused[editor] THEN apiEditor.id
                                   ELSE loop[n - 1].activeEditor]
                     ELSE loop[n - 1]
    IN  loop[Len(list)]

\* for (const editor of listCodeEditors()): the editors with a model that is
\* not too large, and the id of the last of them that is focused.
takeEditors(svc) ==
    LET list == svc.codeEditors
        loop[n \in 0..Len(list)] ==
            IF n = 0 THEN [editors |-> <<>>, activeEditor |-> Null]
            ELSE LET editor == list[n]
                     model == svc.editorModel[editor]
                 IN  IF Truthy(model) /\ ~isTooLargeForHavingARichMode(model)
                     THEN LET apiEditor == EditorAndModel(editor, model)
                          IN  [editors |-> Append(loop[n - 1].editors, apiEditor),
                               activeEditor |->
                                   IF svc.editorFocused[editor] THEN apiEditor.id
                                   ELSE loop[n - 1].activeEditor]
                     ELSE loop[n - 1]
    IN  loop[Len(list)]

\* The match with the active workbench editor made without the test of
\* !activeEditor around it.
matchWorkbenchEditorAlways(svc, editors, activeEditor) ==
    LET workbenchEditor == svc.activeWorkbenchEditor
    IN  IF workbenchEditor.kind = "none" THEN activeEditor
        ELSE LET candidate ==
                     IF workbenchEditor.kind \in {"code", "diff"}
                     THEN workbenchEditor.editor ELSE Undefined
                 hits == {i \in 1..Len(editors) : editors[i].editor = candidate}
             IN  IF Truthy(candidate) /\ hits # {}
                 THEN editors[CHOOSE i \in hits : \A k \in hits : i <= k].id
                 ELSE activeEditor

\* if (!activeEditor) { ... match the active workbench editor ... }
matchWorkbenchEditor(svc, editors, activeEditor) ==
    IF Truthy(activeEditor) THEN activeEditor
    ELSE LET workbenchEditor == svc.activeWorkbenchEditor
         IN  IF workbenchEditor.kind = "none" THEN activeEditor
             ELSE LET candidate ==
                          IF workbenchEditor.kind \in {"code", "diff"}
                          THEN workbenchEditor.editor ELSE Undefined
                      hits == {i \in 1..Len(editors) : editors[i].editor = candidate}
                  IN  IF Truthy(candidate) /\ hits # {}
                      THEN editors[CHOOSE i \in hits : \A k \in hits : i <= k].id
                      ELSE activeEditor

\* new DocumentAndEditorState(models, editors, activeEditor), the active editor
\* settled after the loop over the editors.
newState(svc, ms, taken) ==
    DocumentAndEditorState(ms, taken.editors,
        matchWorkbenchEditor(svc, taken.editors, taken.activeEditor))

\* The snapshot _updateState builds from the services.
buildState(svc) == newState(svc, ignoreTooLargeModels(svc.models), takeEditors(svc))

\* The end of _updateState firing before it assigns _currentState.
storeAndFireFiresFirst(cur, new, d) ==
    IF ~d.isEmpty
    THEN [currentState |-> new,
          fired |-> <<d>>,
          trace |-> <<[op |-> "compute", newState |-> new, delta |-> d],
                      [op |-> "onDidChangeState", delta |-> d, stored |-> cur]>>]
    ELSE [currentState |-> cur, fired |-> <<>>,
          trace |-> <<[op |-> "compute", newState |-> new, delta |-> d]>>]

\* The end of _updateState without the test of delta.isEmpty.
storeAndFireAlways(cur, new, d) ==
    [currentState |-> new,
     fired |-> <<d>>,
     trace |-> <<[op |-> "compute", newState |-> new, delta |-> d],
                 [op |-> "onDidChangeState", delta |-> d, stored |-> new]>>]

\* The end of _updateState without the assignment of _currentState.
storeAndFireNoStore(cur, new, d) ==
    IF ~d.isEmpty
    THEN [currentState |-> cur,
          fired |-> <<d>>,
          trace |-> <<[op |-> "compute", newState |-> new, delta |-> d],
                      [op |-> "onDidChangeState", delta |-> d, stored |-> cur]>>]
    ELSE [currentState |-> cur, fired |-> <<>>,
          trace |-> <<[op |-> "compute", newState |-> new, delta |-> d]>>]

\* if (!delta.isEmpty) { this._currentState = newState; this._onDidChangeState(delta); }
\* A fire entry carries the _currentState a listener reads while it runs.
storeAndFire(cur, new, d) ==
    IF ~d.isEmpty
    THEN [currentState |-> new,
          fired |-> <<d>>,
          trace |-> <<[op |-> "compute", newState |-> new, delta |-> d],
                      [op |-> "onDidChangeState", delta |-> d, stored |-> new]>>]
    ELSE [currentState |-> cur, fired |-> <<>>,
          trace |-> <<[op |-> "compute", newState |-> new, delta |-> d]>>]

\* const delta = DocumentAndEditorState.compute(this._currentState, newState)
computeAndFire(cur, new) == storeAndFire(cur, new, compute(cur, new))

\* _updateState(): the new value of _currentState and what was done, in order.
updateState(svc, cur) == computeAndFire(cur, buildState(svc))

(***************************************************************************)
(* MainThreadDocumentsAndEditors._onDelta                                  *)
(***************************************************************************)
\* new MainThreadTextEditor(id, document, editor, ...)
MainThreadTextEditor(id, document, editor) ==
    [id |-> id, document |-> document, editor |-> editor]

Map(seq, f(_)) == [i \in 1..Len(seq) |-> f(seq[i])]

\* _toModelAddData and _toTextEditorAddData, without the fields read from the
\* text buffer, the text file service and the editor widget.
toModelAddData(model) == [url |-> model]
toTextEditorAddData(textEditor) == [id |-> textEditor.id, document |-> textEditor.document]

\* The loop over the removed editors without removedEditors.push(id).
removeEditorsNoPush(removed, registry) ==
    LET ids == {removed[n].id : n \in 1..Len(removed)}
        gone == {h \in registry : h.id \in ids}
    IN  [editors |-> registry \ gone,
         removedEditors |-> <<>>,
         trace |-> <<>>]

\* The loop over the removed editors without delete this._editors[id].
removeEditorsNoDelete(removed, registry) ==
    LET loop[n \in 0..Len(removed)] ==
            IF n = 0 THEN [editors |-> registry, removedEditors |-> <<>>, trace |-> <<>>]
            ELSE LET id == removed[n].id
                     prev == loop[n - 1]
                 IN  IF \E h \in prev.editors : h.id = id
                     THEN [editors |-> prev.editors,
                           removedEditors |-> Append(prev.removedEditors, id),
                           trace |-> Append(prev.trace, [op |-> "dispose", id |-> id])]
                     ELSE prev
    IN  loop[Len(removed)]

\* The loop over the removed editors without the test of the registered handle.
removeEditorsNoTest(removed, registry) ==
    LET loop[n \in 0..Len(removed)] ==
            IF n = 0 THEN [editors |-> registry, removedEditors |-> <<>>, trace |-> <<>>]
            ELSE LET id == removed[n].id
                     prev == loop[n - 1]
                 IN  [editors |-> {h \in prev.editors : h.id # id},
                      removedEditors |-> Append(prev.removedEditors, id),
                      trace |-> Append(prev.trace, [op |-> "dispose", id |-> id])]
    IN  loop[Len(removed)]

\* for (const { id } of delta.removedEditors) { if (registered) dispose, delete, push }
removeEditors(removed, registry) ==
    LET loop[n \in 0..Len(removed)] ==
            IF n = 0 THEN [editors |-> registry, removedEditors |-> <<>>, trace |-> <<>>]
            ELSE LET id == removed[n].id
                     prev == loop[n - 1]
                 IN  IF \E h \in prev.editors : h.id = id
                     THEN [editors |-> {h \in prev.editors : h.id # id},
                           removedEditors |-> Append(prev.removedEditors, id),
                           trace |-> Append(prev.trace, [op |-> "dispose", id |-> id])]
                     ELSE prev
    IN  loop[Len(removed)]

\* this._textEditors[id] = mainThreadEditor, for every added editor
register(registry, addedEditors) ==
    {h \in registry : \A i \in 1..Len(addedEditors) : addedEditors[i].id # h.id}
        \cup Range(addedEditors)

\* The four events fired before the payload is sent.
sendAndEmitEventsFirst(d, addedEditors, rem, payload) ==
    [editors |-> rem.editors,
     payload |-> payload,
     trace |-> Map(addedEditors, LAMBDA h : [op |-> "new MainThreadTextEditor", id |-> h.id])
               \o rem.trace
               \o <<[op |-> "onTextEditorRemove", ids |-> rem.removedEditors],
                    [op |-> "onTextEditorAdd", ids |-> Map(addedEditors, LAMBDA h : h.id),
                     documents |-> Map(addedEditors, LAMBDA h : h.document)],
                    [op |-> "onDocumentRemove", uris |-> payload.removedDocuments],
                    [op |-> "onDocumentAdd", uris |-> d.addedDocuments],
                    [op |-> "$acceptDocumentsAndEditorsDelta", payload |-> payload]>>]

\* $acceptDocumentsAndEditorsDelta(extHostDelta), then the four events.
sendAndEmit(d, addedEditors, rem, payload) ==
    [editors |-> rem.editors,
     payload |-> payload,
     trace |-> Map(addedEditors, LAMBDA h : [op |-> "new MainThreadTextEditor", id |-> h.id])
               \o rem.trace
               \o <<[op |-> "$acceptDocumentsAndEditorsDelta", payload |-> payload],
                    [op |-> "onTextEditorRemove", ids |-> rem.removedEditors],
                    [op |-> "onTextEditorAdd", ids |-> Map(addedEditors, LAMBDA h : h.id),
                     documents |-> Map(addedEditors, LAMBDA h : h.document)],
                    [op |-> "onDocumentRemove", uris |-> payload.removedDocuments],
                    [op |-> "onDocumentAdd", uris |-> d.addedDocuments]>>]

\* The extHostDelta built from the delta and the two editor lists.
extHostDelta(d, addedEditors, rem) ==
    sendAndEmit(d, addedEditors, rem,
        [newActiveEditor |-> d.newActiveEditor,
         removedDocuments |-> Map(d.removedDocuments, LAMBDA m : m),
         removedEditors |-> rem.removedEditors,
         addedDocuments |-> Map(d.addedDocuments, toModelAddData),
         addedEditors |-> Map(addedEditors, toTextEditorAddData)])

\* The added editors are registered, then the removed ones are taken out.
addThenRemove(d, registry, addedEditors) ==
    extHostDelta(d, addedEditors,
        removeEditors(d.removedEditors, register(registry, addedEditors)))

\* _onDelta(delta): the new registry, the payload sent and what was done, in order.
onDelta(d, registry) ==
    addThenRemove(d, registry,
        Map(d.addedEditors, LAMBDA e : MainThreadTextEditor(e.id, e.document, e.editor)))

\* What the remote side holds after one more payload.
acceptDocuments(documents, payload) ==
    (documents \ Range(payload.removedDocuments))
        \cup {payload.addedDocuments[i].url : i \in 1..Len(payload.addedDocuments)}

acceptEditors(editors, payload) ==
    (editors \ Range(payload.removedEditors))
        \cup {payload.addedEditors[i].id : i \in 1..Len(payload.addedEditors)}

\* What a listener of onDidChangeState holds after one more delta.
acceptDelta(held, d) ==
    [documents |-> (held.documents \ Range(d.removedDocuments))
                       \cup Range(d.addedDocuments),
     editors |-> (held.editors \ {d.removedEditors[i].id : i \in 1..Len(d.removedEditors)})
                     \cup {d.addedEditors[i].id : i \in 1..Len(d.addedEditors)}]

\* What a listener of onDocumentAdd and onDocumentRemove holds after the
\* events of a trace, heard in order.
listenDocuments(documents, t) ==
    LET heard[n \in 0..Len(t)] ==
            IF n = 0 THEN documents
            ELSE IF t[n].op = "onDocumentAdd" THEN heard[n - 1] \cup Range(t[n].uris)
            ELSE IF t[n].op = "onDocumentRemove" THEN heard[n - 1] \ Range(t[n].uris)
            ELSE heard[n - 1]
    IN  heard[Len(t)]

\* The handles created and not disposed after the constructions and the
\* disposals of a trace.
countHandles(handles, t) ==
    LET held[n \in 0..Len(t)] ==
            IF n = 0 THEN handles
            ELSE IF t[n].op = "new MainThreadTextEditor"
            THEN held[n - 1] (+) SetToBag({t[n].id})
            ELSE IF t[n].op = "dispose" THEN held[n - 1] (-) SetToBag({t[n].id})
            ELSE held[n - 1]
    IN  held[Len(t)]

(***************************************************************************)
(* Signals and their handlers.  A signal and everything its listener does  *)
(* is one step: emission is synchronous.                                   *)
(***************************************************************************)
SetServices(svc) ==
    /\ steps < MaxSteps
    /\ steps' = steps + 1
    /\ models' = svc.models
    /\ codeEditors' = svc.codeEditors
    /\ editorModel' = svc.editorModel
    /\ editorFocused' = svc.editorFocused
    /\ activeWorkbenchEditor' = svc.activeWorkbenchEditor

\* The positions of the entries of a trace that record operation op.
Entries(t, op) == {i \in 1..Len(t) : t[i].op = op}
Recomputed(t) == Entries(t, "compute") # {}

\* An editor that _updateState leaves out: it has no model, or a too large one.
Filtered(e) ==
    ~(Truthy(editorModel[e]) /\ ~isTooLargeForHavingARichMode(editorModel[e]))

\* The signal takes away only editors that are left out, while the stored
\* snapshot is the snapshot of the services.
DropsFiltered(svc) ==
    /\ Range(codeEditors) \ Range(svc.codeEditors) # {}
    /\ \A e \in Range(codeEditors) \ Range(svc.codeEditors) : Filtered(e)
    /\ currentState = buildState(Now)

\* The first entry of a handler's trace: the signal it handles, whether the
\* services changed with it, whether the step before recomputed as well, and
\* whether it only takes away editors that are left out.
Signal(signal, svc) ==
    [op |-> "signal", name |-> signal, changed |-> svc # Now,
     follows |-> Recomputed(trace), idle |-> DropsFiltered(svc)]

\* The tracker's listener runs _updateState on the services as they are now,
\* and _onDelta runs for the delta it fires, if any.
Dispatched(first, u, o) ==
    /\ announced' = acceptDelta(announced, u.fired[1])
    /\ textEditors' = o.editors
    /\ undisposed' = countHandles(undisposed, o.trace)
    /\ mirrorDocuments' = acceptDocuments(mirrorDocuments, o.payload)
    /\ mirrorEditors' = acceptEditors(mirrorEditors, o.payload)
    /\ localDocuments' = listenDocuments(localDocuments, o.trace)
    /\ trace' = first \o u.trace \o o.trace

Updated(first, u) ==
    /\ currentState' = u.currentState
    /\ IF u.fired # <<>>
       THEN Dispatched(first, u, onDelta(u.fired[1], textEditors))
       ELSE /\ UNCHANGED <<announced, dispatcher>>
            /\ trace' = first \o u.trace

Recompute(signal, svc) ==
    Updated(<<Signal(signal, svc)>>, updateState(svc, currentState))

\* The tracker has a listener for the signal, and the listener returns early.
Ignore(signal, svc) ==
    /\ UNCHANGED <<currentState, announced, dispatcher>>
    /\ trace' = <<Signal(signal, svc)>>

\* The tracker has no listener for what happened.
Unobserved ==
    /\ UNCHANGED <<currentState, announced, dispatcher>>
    /\ trace' = <<>>

\* IModelService.onModelAdded -> _updateState
ModelAdded(uri) ==
    /\ uri \notin Range(models)
    /\ LET svc == [Now EXCEPT !.models = Append(models, uri)]
       IN  /\ SetServices(svc)
           /\ IF "onModelAdded" \in toDispose
              THEN Recompute("onModelAdded", svc) ELSE Unobserved
    /\ UNCHANGED <<subscriptions, signalled, pure, extHost>>

\* IModelService.onModelRemoved -> _updateState
ModelRemoved(uri) ==
    /\ uri \in Range(models)
    /\ LET svc == [Now EXCEPT !.models = Without(models, uri)]
       IN  /\ SetServices(svc)
           /\ IF "onModelRemoved" \in toDispose
              THEN Recompute("onModelRemoved", svc) ELSE Unobserved
    /\ UNCHANGED <<subscriptions, signalled, pure, extHost>>

\* ICodeEditorService.onCodeEditorAdd -> _onDidAddEditor
EditorAdded(e, model) ==
    /\ e \notin Range(codeEditors)
    /\ LET svc == [Now EXCEPT !.codeEditors = Append(codeEditors, e),
                              !.editorModel[e] = model,
                              !.editorFocused[e] = FALSE]
       IN  /\ SetServices(svc)
           /\ IF "onCodeEditorAdd" \in toDispose
              THEN /\ listeners' = listeners \cup {e}
                   /\ toDisposeOnEditorRemove' = toDisposeOnEditorRemove \cup {e}
                   /\ Recompute("onCodeEditorAdd", svc)
              ELSE /\ UNCHANGED <<listeners, toDisposeOnEditorRemove>>
                   /\ Unobserved
    /\ signalled' = signalled \cup {e}
    /\ UNCHANGED <<toDispose, pure, extHost>>

\* _onDidRemoveEditor without sub.dispose().
EditorRemovedKeepsListener(e) ==
    /\ e \in Range(codeEditors)
    /\ LET svc == [Now EXCEPT !.codeEditors = Without(codeEditors, e),
                              !.editorModel[e] = Null,
                              !.editorFocused[e] = FALSE]
       IN  /\ SetServices(svc)
           /\ IF "onCodeEditorRemove" \notin toDispose
              THEN /\ UNCHANGED <<listeners, toDisposeOnEditorRemove>>
                   /\ Unobserved
              ELSE IF e \in toDisposeOnEditorRemove
              THEN /\ toDisposeOnEditorRemove' = toDisposeOnEditorRemove \ {e}
                   /\ UNCHANGED listeners
                   /\ Recompute("onCodeEditorRemove", svc)
              ELSE /\ UNCHANGED <<listeners, toDisposeOnEditorRemove>>
                   /\ Ignore("onCodeEditorRemove", svc)
    /\ signalled' = signalled \ {e}
    /\ UNCHANGED <<toDispose, pure, extHost>>

\* ICodeEditorService.onCodeEditorRemove -> _onDidRemoveEditor
EditorRemoved(e) ==
    /\ e \in Range(codeEditors)
    /\ LET svc == [Now EXCEPT !.codeEditors = Without(codeEditors, e),
                              !.editorModel[e] = Null,
                              !.editorFocused[e] = FALSE]
       IN  /\ SetServices(svc)
           /\ IF "onCodeEditorRemove" \notin toDispose
              THEN /\ UNCHANGED <<listeners, toDisposeOnEditorRemove>>
                   /\ Unobserved
              ELSE IF e \in toDisposeOnEditorRemove
              THEN /\ toDisposeOnEditorRemove' = toDisposeOnEditorRemove \ {e}
                   /\ listeners' = listeners \ {e}
                   /\ Recompute("onCodeEditorRemove", svc)
              ELSE /\ UNCHANGED <<listeners, toDisposeOnEditorRemove>>
                   /\ Ignore("onCodeEditorRemove", svc)
    /\ signalled' = signalled \ {e}
    /\ UNCHANGED <<toDispose, pure, extHost>>

\* A signal of one editor: heard only through the listener _onDidAddEditor
\* registered for it, as long as that listener is not disposed.
EditorSignal(e, signal, svc) ==
    /\ SetServices(svc)
    /\ IF e \in listeners THEN Recompute(signal, svc) ELSE Unobserved
    /\ UNCHANGED <<subscriptions, signalled, pure, extHost>>

\* editor.onDidChangeModel
EditorModelChanged(e, model) ==
    /\ e \in Range(codeEditors)
    /\ model # editorModel[e]
    /\ EditorSignal(e, "onDidChangeModel", [Now EXCEPT !.editorModel[e] = model])

\* editor.onDidFocusEditor, also for an editor that has the focus already
EditorFocusGained(e) ==
    /\ e \in Range(codeEditors)
    /\ EditorSignal(e, "onDidFocusEditor", [Now EXCEPT !.editorFocused[e] = TRUE])

\* editor.onDidBlurEditor
EditorFocusLost(e) ==
    /\ e \in Range(codeEditors)
    /\ editorFocused[e]
    /\ EditorSignal(e, "onDidBlurEditor", [Now EXCEPT !.editorFocused[e] = FALSE])

\* The workbench's active editor changes: no signal the tracker listens to.
ActiveWorkbenchEditorChanged(w) ==
    /\ w # activeWorkbenchEditor
    /\ SetServices([Now EXCEPT !.activeWorkbenchEditor = w])
    /\ Unobserved
    /\ UNCHANGED <<subscriptions, signalled, pure, extHost>>

\* dispose(): this._toDispose = dispose(this._toDispose)
Dispose ==
    /\ toDispose # {}
    /\ steps < MaxSteps
    /\ steps' = steps + 1
    /\ toDispose' = {}
    /\ trace' = <<[op |-> "tracker.dispose"]>>
    /\ UNCHANGED <<services, currentState, toDisposeOnEditorRemove, listeners,
                   signalled, announced, dispatcher, pure, extHost>>

NoResult == [op |-> "none"]

\* The tracker and the dispatcher are constructed while models and editors
\* may exist already; construction recomputes nothing.
Init ==
    /\ \/ /\ models = <<>>
          /\ codeEditors = <<>>
          /\ editorModel = [e \in EditorIds |-> Null]
       \/ /\ models = <<"a">>
          /\ codeEditors = <<"e1">>
          /\ editorModel = [e \in EditorIds |-> IF e = "e1" THEN "a" ELSE Null]
    /\ editorFocused = [e \in EditorIds |-> FALSE]
    /\ activeWorkbenchEditor = NoWorkbenchEditor
    /\ currentState = NoState
    /\ toDisposeOnEditorRemove = {}
    /\ listeners = {}
    /\ toDispose = TopLevelSignals
    /\ signalled = {}
    /\ announced = [documents |-> {}, editors |-> {}]
    /\ textEditors = {}
    /\ undisposed = EmptyBag
    /\ mirrorDocuments = {}
    /\ mirrorEditors = {}
    /\ localDocuments = {}
    /\ trace = <<>>
    /\ steps = 0
    /\ snapA = NoState /\ snapB = NoState /\ result = NoResult
    /\ ExtHostConstructed

Next ==
    \/ \E uri \in Uris : ModelAdded(uri)
    \/ \E uri \in Uris : ModelRemoved(uri)
    \/ \E e \in EditorIds, model \in EditorModels \cup {Null} : EditorAdded(e, model)
    \/ \E e \in EditorIds : EditorRemoved(e)
    \/ \E e \in EditorIds, model \in EditorModels \cup {Null} : EditorModelChanged(e, model)
    \/ \E e \in EditorIds : EditorFocusGained(e)
    \/ \E e \in EditorIds : EditorFocusLost(e)
    \/ \E w \in WorkbenchEditors : ActiveWorkbenchEditorChanged(w)
    \/ Dispose

Spec == Init /\ [][Next]_vars

(***************************************************************************)
(* compute on its own: every pair of snapshots the constructor can build   *)
(* from at most MaxDocs documents and the bindings of the editors.         *)
(***************************************************************************)
MaxDocs == 2
SnapshotUris == {"a", "b", "x"}
SnapshotEditorModels == {"a", "b"}

DocumentLists ==
    {ds \in UNION {[1..n -> SnapshotUris] : n \in 0..MaxDocs} :
        \A i, j \in 1..Len(ds) : i # j => ds[i] # ds[j]}

\* One binding at most for each editor, listed against the order of the ids.
EditorLists ==
    {(IF f["e2"] # Null THEN <<EditorAndModel("e2", f["e2"])>> ELSE <<>>)
        \o (IF f["e1"] # Null THEN <<EditorAndModel("e1", f["e1"])>> ELSE <<>>) :
     f \in [EditorIds -> SnapshotEditorModels \cup {Null}]}

Snapshots ==
    UNION {{DocumentAndEditorState(ds, es, active) :
                active \in {Null} \cup {es[i].id : i \in 1..Len(es)}} :
           ds \in DocumentLists, es \in EditorLists}

InitCompute ==
    /\ models = <<>>
    /\ codeEditors = <<>>
    /\ editorModel = [e \in EditorIds |-> Null]
    /\ editorFocused = [e \in EditorIds |-> FALSE]
    /\ activeWorkbenchEditor = NoWorkbenchEditor
    /\ currentState = NoState
    /\ toDisposeOnEditorRemove = {}
    /\ listeners = {}
    /\ toDispose = TopLevelSignals
    /\ signalled = {}
    /\ announced = [documents |-> {}, editors |-> {}]
    /\ textEditors = {}
    /\ undisposed = EmptyBag
    /\ mirrorDocuments = {}
    /\ mirrorEditors = {}
    /\ localDocuments = {}
    /\ trace = <<>>
    /\ steps = 0
    /\ snapA \in Snapshots
    /\ snapB \in Snapshots
    /\ result = NoResult
    /\ ExtHostConstructed

Computed(op, d) ==
    /\ result = NoResult
    /\ result' = [op |-> op, delta |-> d]
    /\ UNCHANGED <<services, tracker, signalled, announced, dispatcher, trace, steps, snapA, snapB, extHost>>

ComputeDelta == Computed("compute", compute(snapA, snapB))
ComputeSame == Computed("same", compute(snapA, snapA))
ComputeFirst == Computed("first", compute(NoState, snapB))

NextCompute == ComputeDelta \/ ComputeSame \/ ComputeFirst

SpecCompute == InitCompute /\ [][NextCompute]_vars

(***************************************************************************)
(* _onDelta on its own: every non-empty delta compute gives for two         *)
(* snapshots with at most the document "a", delivered to a dispatcher whose *)
(* registry holds any of the handles.                                      *)
(***************************************************************************)
DispatchSnapshots == {s \in Snapshots : s.documents \in {<<>>, <<"a">>}}

Handles ==
    {MainThreadTextEditor(b.id, b.document, b.editor) :
        b \in {EditorAndModel(e, m) : e \in EditorIds, m \in SnapshotEditorModels}}

InitOnDelta ==
    /\ models = <<>>
    /\ codeEditors = <<>>
    /\ editorModel = [e \in EditorIds |-> Null]
    /\ editorFocused = [e \in EditorIds |-> FALSE]
    /\ activeWorkbenchEditor = NoWorkbenchEditor
    /\ currentState = NoState
    /\ toDisposeOnEditorRemove = {}
    /\ listeners = {}
    /\ toDispose = TopLevelSignals
    /\ signalled = {}
    /\ announced = [documents |-> {}, editors |-> {}]
    /\ textEditors \in SUBSET Handles
    /\ undisposed = SetToBag({h.id : h \in textEditors})
    /\ mirrorDocuments = {}
    /\ mirrorEditors = {}
    /\ localDocuments = {}
    /\ trace = <<>>
    /\ steps = 0
    /\ snapA \in DispatchSnapshots
    /\ snapB \in DispatchSnapshots
    /\ result = NoResult
    /\ ExtHostConstructed

\* The listener of onDidChangeState has run for delta d, with outcome o.
Delivered(d, o) ==
    /\ result' = [op |-> "onDelta", delta |-> d, registry |-> textEditors, out |-> o]
    /\ announced' = acceptDelta(announced, d)
    /\ textEditors' = o.editors
    /\ undisposed' = countHandles(undisposed, o.trace)
    /\ mirrorDocuments' = acceptDocuments(mirrorDocuments, o.payload)
    /\ mirrorEditors' = acceptEditors(mirrorEditors, o.payload)
    /\ localDocuments' = listenDocuments(localDocuments, o.trace)
    /\ trace' = o.trace
    /\ UNCHANGED <<services, tracker, signalled, steps, snapA, snapB, extHost>>

OnDelta ==
    /\ result = NoResult
    /\ ~compute(snapA, snapB).isEmpty
    /\ Delivered(compute(snapA, snapB), onDelta(compute(snapA, snapB), textEditors))

NextOnDelta == OnDelta

SpecOnDelta == InitOnDelta /\ [][NextOnDelta]_vars

(***************************************************************************)
(* A listener that changes the services while a delta is being delivered.  *)
(* Emitter.fire calls the listeners synchronously, so the signal of the    *)
(* change and the recomputation it causes run inside the listener, before  *)
(* the outer handler goes on.                                              *)
(***************************************************************************)
\* Where the listener is called: at one of the four events of _onDelta, or
\* as a listener of onDidChangeState registered after _onDelta.
ListenerEvents ==
    {"onTextEditorRemove", "onTextEditorAdd", "onDocumentRemove", "onDocumentAdd",
     "onDidChangeState"}

\* The position in the trace of _onDelta after which the listener runs.
ListenerAt(o, event) ==
    IF event = "onDidChangeState" THEN Len(o.trace)
    ELSE CHOOSE i \in 1..Len(o.trace) : o.trace[i].op = event

\* _currentState as a listener of the fired delta reads it.
Stored(u) == u.trace[CHOOSE i \in Entries(u.trace, "onDidChangeState") : TRUE].stored

\* _onDelta is not called: the registry stays, nothing is sent.
NoDispatch(registry) == [editors |-> registry, trace |-> <<>>]

Splice(t, at, inner) == SubSeq(t, 1, at) \o inner \o SubSeq(t, at + 1, Len(t))

\* What the remote side holds after the payloads of a trace, in the order sent.
acceptPayloads(held, t) ==
    LET got[n \in 0..Len(t)] ==
            IF n = 0 THEN held
            ELSE IF t[n].op = "$acceptDocumentsAndEditorsDelta"
            THEN [documents |-> acceptDocuments(got[n - 1].documents, t[n].payload),
                  editors |-> acceptEditors(got[n - 1].editors, t[n].payload)]
            ELSE got[n - 1]
    IN  got[Len(t)]

\* What a listener of onDidChangeState holds after the deltas of a trace.
acceptDeltas(held, t) ==
    LET got[n \in 0..Len(t)] ==
            IF n = 0 THEN held
            ELSE IF t[n].op = "onDidChangeState" THEN acceptDelta(got[n - 1], t[n].delta)
            ELSE got[n - 1]
    IN  got[Len(t)]

\* The outer handler and the handler that ran inside the listener are done.
NestedDone(t, u2, o2) ==
    /\ trace' = t
    /\ currentState' = u2.currentState
    /\ textEditors' = o2.editors
    /\ announced' = acceptDeltas(announced, t)
    /\ undisposed' = countHandles(undisposed, t)
    /\ mirrorDocuments' = acceptPayloads([documents |-> mirrorDocuments, editors |-> mirrorEditors], t).documents
    /\ mirrorEditors' = acceptPayloads([documents |-> mirrorDocuments, editors |-> mirrorEditors], t).editors
    /\ localDocuments' = listenDocuments(localDocuments, t)

NestedDispatched(first, u, o, at, second, u2, o2) ==
    NestedDone(first \o u.trace \o Splice(o.trace, at, second \o u2.trace \o o2.trace), u2, o2)

\* The recomputation inside the listener finds the snapshot the outer
\* _updateState stored, and _onDelta the registry the outer _onDelta left.
NestedUpdated(first, u, o, at, second, u2) ==
    NestedDispatched(first, u, o, at, second, u2,
        IF u2.fired # <<>> THEN onDelta(u2.fired[1], o.editors) ELSE NoDispatch(o.editors))

\* The outer signal fires a delta; at the event the listener changes the
\* services from svc to svc2, which the tracker hears as signal2.
NestedRecompute(signal, svc, u, event, signal2, svc2) ==
    /\ steps + 1 < MaxSteps
    /\ steps' = steps + 2
    /\ u.fired # <<>>
    /\ models' = svc2.models
    /\ codeEditors' = svc2.codeEditors
    /\ editorModel' = svc2.editorModel
    /\ editorFocused' = svc2.editorFocused
    /\ activeWorkbenchEditor' = svc2.activeWorkbenchEditor
    /\ NestedUpdated(<<Signal(signal, svc)>>, u, onDelta(u.fired[1], textEditors),
                     ListenerAt(onDelta(u.fired[1], textEditors), event),
                     <<[op |-> "signal", name |-> signal2, changed |-> svc2 # svc,
                        follows |-> TRUE, idle |-> FALSE]>>,
                     updateState(svc2, Stored(u)))

\* onModelAdded; a listener of the dispatch adds or removes a model.
ListenerChangesModels(uri, event, ms) ==
    /\ uri \notin Range(models)
    /\ "onModelAdded" \in toDispose
    /\ NestedRecompute("onModelAdded", [Now EXCEPT !.models = Append(models, uri)],
           updateState([Now EXCEPT !.models = Append(models, uri)], currentState),
           event,
           IF Len(ms) > Len(models) + 1 THEN "onModelAdded" ELSE "onModelRemoved",
           [Now EXCEPT !.models = ms])
    /\ UNCHANGED <<subscriptions, signalled, pure, extHost>>

ListenerAddsModel(uri, event, uri2) ==
    /\ uri2 \notin Range(models) \cup {uri}
    /\ ListenerChangesModels(uri, event, Append(Append(models, uri), uri2))

ListenerRemovesModel(uri, event, uri2) ==
    /\ uri2 \in Range(models) \cup {uri}
    /\ "onModelRemoved" \in toDispose
    /\ ListenerChangesModels(uri, event, Without(Append(models, uri), uri2))

\* onCodeEditorAdd; a listener of the dispatch gives the editor another model,
\* which the tracker hears through the listener it has just registered.
ListenerSetsModel(e, model, event, model2) ==
    /\ e \notin Range(codeEditors)
    /\ "onCodeEditorAdd" \in toDispose
    /\ model2 # model
    /\ listeners' = listeners \cup {e}
    /\ toDisposeOnEditorRemove' = toDisposeOnEditorRemove \cup {e}
    /\ signalled' = signalled \cup {e}
    /\ NestedRecompute("onCodeEditorAdd",
           [Now EXCEPT !.codeEditors = Append(codeEditors, e), !.editorModel[e] = model,
                       !.editorFocused[e] = FALSE],
           updateState([Now EXCEPT !.codeEditors = Append(codeEditors, e),
                                   !.editorModel[e] = model,
                                   !.editorFocused[e] = FALSE], currentState),
           event, "onDidChangeModel",
           [Now EXCEPT !.codeEditors = Append(codeEditors, e), !.editorModel[e] = model2,
                       !.editorFocused[e] = FALSE])
    /\ UNCHANGED <<toDispose, pure, extHost>>

NextNested ==
    \/ \E uri \in Uris : ModelAdded(uri)
    \/ \E e \in EditorIds, model \in EditorModels \cup {Null} : EditorAdded(e, model)
    \/ \E e \in EditorIds : EditorRemoved(e)
    \/ \E uri \in Uris, event \in ListenerEvents, uri2 \in Uris :
           ListenerAddsModel(uri, event, uri2)
    \/ \E uri \in Uris, event \in ListenerEvents, uri2 \in Uris :
           ListenerRemovesModel(uri, event, uri2)
    \/ \E e \in EditorIds, model \in EditorModels \cup {Null}, event \in ListenerEvents,
          model2 \in {"b", Null} : ListenerSetsModel(e, model, event, model2)

SpecNested == Init /\ [][NextNested]_vars

(***************************************************************************)
(* ExtHostDocuments.                                                       *)
(***************************************************************************)
\* Calls and completions followed from the construction of the object.
MaxCalls == 5
\* The URIs of the documents, as strings (uri.toString()).
ExtUris == {"a", "b"}
\* Texts, as sequences of characters: "", "p", "p\n", "p\r\n".
Contents == {<<>>, <<"p">>, <<"p", "\n">>, <<"p", "\r", "\n">>}

\* RawText.fromString(value, ...).lines: the text cut at \r\n, \r and \n.
fromString(value) ==
    LET cut[n \in 0..Len(value)] ==
            IF n = 0 THEN [lines |-> << <<>> >>, cr |-> FALSE]
            ELSE IF value[n] = "\r"
            THEN [lines |-> Append(cut[n - 1].lines, <<>>), cr |-> TRUE]
            ELSE IF value[n] = "\n"
            THEN IF cut[n - 1].cr
                 THEN [lines |-> cut[n - 1].lines, cr |-> FALSE]
                 ELSE [lines |-> Append(cut[n - 1].lines, <<>>), cr |-> FALSE]
            ELSE [lines |-> [cut[n - 1].lines EXCEPT
                                ![Len(cut[n - 1].lines)] = Append(@, value[n])],
                  cr |-> FALSE]
    IN  cut[Len(value)].lines

\* The lines a document can have.
LineLists == {fromString(value) : value \in Contents}

\* ExtHostDocumentData.equalLines(raw): the same lines, one by one.
equalLines(lines, raw) ==
    /\ Len(lines) = Len(raw)
    /\ \A i \in 1..Len(lines) : lines[i] = raw[i]

\* Map.set(key, value) and Map.delete(key)
MapSet(map, key, value) ==
    [k \in DOMAIN map \cup {key} |-> IF k = key THEN value ELSE map[k]]
MapDelete(map, key) == [k \in DOMAIN map \ {key} |-> map[k]]

\* $acceptModelAdd without the test of _documentData.has(key).
acceptModelAddOverwrites(data, uri, lines) ==
    [documentData |-> MapSet(data, uri, lines),
     trace |-> <<[op |-> "onDidAddDocument", uri |-> uri]>>]

\* $acceptModelAdd(initData): the registry and what was done.
acceptModelAdd(data, uri, lines) ==
    IF uri \in DOMAIN data
    THEN [documentData |-> data,
          trace |-> <<[op |-> "throw", message |-> "already exists"]>>]
    ELSE [documentData |-> MapSet(data, uri, lines),
          trace |-> <<[op |-> "onDidAddDocument", uri |-> uri]>>]

\* $acceptModelRemoved(strURL)
acceptModelRemoved(data, uri) ==
    IF uri \notin DOMAIN data
    THEN [documentData |-> data,
          trace |-> <<[op |-> "throw", message |-> "does not exist"]>>]
    ELSE [documentData |-> MapDelete(data, uri),
          trace |-> <<[op |-> "onDidRemoveDocument", uri |-> uri],
                      [op |-> "dispose", uri |-> uri]>>]

\* $acceptModelChanged(strURL, events, isDirty): data is undefined for a URI
\* that is not registered, and data._acceptIsDirty throws a TypeError.
acceptModelChanged(data, uri, lines) ==
    IF uri \notin DOMAIN data
    THEN [documentData |-> data,
          trace |-> <<[op |-> "throw", message |-> "TypeError"]>>]
    ELSE [documentData |-> MapSet(data, uri, lines),
          trace |-> <<[op |-> "onDidChangeDocument", uri |-> uri]>>]

\* What ensureDocumentData returns: TPromise.as(cached), or the promise of a
\* $tryOpenDocument request, named by a number.
Cached == [kind |-> "cached", promise |-> -1]
Promise(promise) == [kind |-> "promise", promise |-> promise]

\* ensureDocumentData without _documentLoader.set(uri.toString(), promise).
ensureDocumentDataNoSet(data, loader, uri, promise) ==
    IF uri \in DOMAIN data
    THEN [documentLoader |-> loader, requests |-> {}, returned |-> Cached]
    ELSE IF uri \in DOMAIN loader
    THEN [documentLoader |-> loader, requests |-> {}, returned |-> Promise(loader[uri])]
    ELSE [documentLoader |-> loader,
          requests |-> {[promise |-> promise, uri |-> uri]},
          returned |-> Promise(promise)]

\* ensureDocumentData(uri): the loader map, the $tryOpenDocument request sent,
\* if any, and what is returned: the cached data or a promise.
ensureDocumentData(data, loader, uri, promise) ==
    IF uri \in DOMAIN data
    THEN [documentLoader |-> loader, requests |-> {}, returned |-> Cached]
    ELSE IF uri \in DOMAIN loader
    THEN [documentLoader |-> loader, requests |-> {}, returned |-> Promise(loader[uri])]
    ELSE [documentLoader |-> MapSet(loader, uri, promise),
          requests |-> {[promise |-> promise, uri |-> uri]},
          returned |-> Promise(promise)]

\* The two callbacks of $tryOpenDocument(uri).then(...): the loader map and
\* what the promise returned by ensureDocumentData settles with.
tryOpenDocumentDone(data, loader, uri, ok) ==
    [documentLoader |-> MapDelete(loader, uri),
     result |-> IF ~ok THEN "error"
                ELSE IF uri \in DOMAIN data THEN "data" ELSE "undefined"]

\* The listener of provider.onDidChange: the content requests it starts.  A
\* request also records whether the document was removed since (not read by
\* the program).
onDidChange(data, handle, uri, promise) ==
    IF uri \in DOMAIN data
    THEN {[promise |-> promise, handle |-> handle, uri |-> uri, removed |-> FALSE]}
    ELSE {}

\* The callback without the test of the document: the text is compared with
\* no lines at all.
providedWithoutDocument(data, uri, value) ==
    IF uri \notin DOMAIN data \/ ~equalLines(data[uri], fromString(value))
    THEN <<[op |-> "$onVirtualDocumentChange", uri |-> uri, lines |-> fromString(value)]>>
    ELSE <<>>

\* The callback of $provideTextDocumentContent(handle, uri).then(value => ...):
\* what is sent to the main thread.
provided(data, uri, value) ==
    IF uri \notin DOMAIN data THEN <<>>
    ELSE IF ~equalLines(data[uri], fromString(value))
    THEN <<[op |-> "$onVirtualDocumentChange", uri |-> uri, lines |-> fromString(value)]>>
    ELSE <<>>

\* One more call on the extension host, or one more completion.
Called ==
    /\ steps < MaxCalls
    /\ steps' = steps + 1
    /\ UNCHANGED mainThread

\* The requests for uri are marked: the document was removed since the signal.
MarkRemoved(requests, uri) ==
    {IF r.uri = uri THEN [r EXCEPT !.removed = TRUE] ELSE r : r \in requests}

AcceptModelAdded(uri, lines, r) ==
    /\ Called
    /\ documentData' = r.documentData
    /\ extTrace' = <<[op |-> "$acceptModelAdd", uri |-> uri, lines |-> lines]>> \o r.trace
    /\ UNCHANGED <<documentLoader, opening, documentContentProviders, subscribed,
                   handlePool, providing, extHostEditors>>

AcceptModelAdd(uri, lines) ==
    AcceptModelAdded(uri, lines, acceptModelAdd(documentData, uri, lines))

AcceptModelRemoved(uri) ==
    /\ Called
    /\ documentData' = acceptModelRemoved(documentData, uri).documentData
    /\ providing' = IF uri \in DOMAIN documentData
                    THEN MarkRemoved(providing, uri) ELSE providing
    /\ extTrace' = <<[op |-> "$acceptModelRemoved", uri |-> uri]>>
                       \o acceptModelRemoved(documentData, uri).trace
    /\ UNCHANGED <<documentLoader, opening, documentContentProviders, subscribed,
                   handlePool, extHostEditors>>

AcceptModelChanged(uri, lines) ==
    /\ Called
    /\ documentData' = acceptModelChanged(documentData, uri, lines).documentData
    /\ extTrace' = <<[op |-> "$acceptModelChanged", uri |-> uri]>>
                       \o acceptModelChanged(documentData, uri, lines).trace
    /\ UNCHANGED <<documentLoader, opening, documentContentProviders, subscribed,
                   handlePool, providing, extHostEditors>>

Ensured(uri, r) ==
    /\ Called
    /\ documentLoader' = r.documentLoader
    /\ opening' = opening \cup r.requests
    /\ extTrace' = <<[op |-> "ensureDocumentData", uri |-> uri, returned |-> r.returned,
                      requests |-> r.requests]>>
    /\ UNCHANGED <<documentData, documentContentProviders, subscribed, handlePool,
                   providing, extHostEditors>>

\* A call of ensureDocumentData; the promise it creates, if any, is named by
\* the number of the call.
EnsureDocumentData(uri) ==
    Ensured(uri, ensureDocumentData(documentData, documentLoader, uri, steps))

\* The main thread answers a $tryOpenDocument request, with success or not.
\* The answer is a message: it comes after the call that sent the request.
TryOpenDocumentDone(request, ok) ==
    /\ request \in opening
    /\ Called
    /\ opening' = opening \ {request}
    /\ documentLoader' =
           tryOpenDocumentDone(documentData, documentLoader, request.uri, ok).documentLoader
    /\ extTrace' = <<[op |-> "$tryOpenDocument done", uri |-> request.uri,
                      promise |-> request.promise,
                      result |-> tryOpenDocumentDone(documentData, documentLoader,
                                                     request.uri, ok).result]>>
    /\ UNCHANGED <<documentData, documentContentProviders, subscribed, handlePool,
                   providing, extHostEditors>>

\* registerTextDocumentContentProvider(scheme, provider), the scheme being
\* neither 'file' nor 'untitled' and the provider having onDidChange.
RegisterTextDocumentContentProvider ==
    /\ Called
    /\ handlePool' = handlePool + 1
    /\ documentContentProviders' = documentContentProviders \cup {handlePool}
    /\ subscribed' = subscribed \cup {handlePool}
    /\ extTrace' = <<[op |-> "registerTextDocumentContentProvider", handle |-> handlePool],
                     [op |-> "$registerTextContentProvider", handle |-> handlePool]>>
    /\ UNCHANGED <<documentData, documentLoader, opening, providing, extHostEditors>>

\* The Disposable that registerTextDocumentContentProvider returned.
DisposeProvider(handle) ==
    /\ handle \in documentContentProviders
    /\ Called
    /\ documentContentProviders' = documentContentProviders \ {handle}
    /\ subscribed' = subscribed \ {handle}
    /\ extTrace' = <<[op |-> "dispose provider", handle |-> handle],
                     [op |-> "$unregisterTextContentProvider", handle |-> handle]>>
    /\ UNCHANGED <<documentData, documentLoader, opening, handlePool, providing,
                   extHostEditors>>

Signalled(handle, uri, requests) ==
    /\ Called
    /\ providing' = providing \cup requests
    /\ extTrace' = <<[op |-> "onDidChange", handle |-> handle, uri |-> uri,
                      registered |-> uri \in DOMAIN documentData,
                      requests |-> requests]>>
    /\ UNCHANGED <<documentData, documentLoader, opening, documentContentProviders,
                   subscribed, handlePool, extHostEditors>>

\* The provider of a handle signals that the content of uri has changed.
ProviderDidChange(handle, uri) ==
    /\ handle \in subscribed
    /\ Signalled(handle, uri, onDidChange(documentData, handle, uri, steps))

\* provideTextDocumentContent settles with a text.
ContentProvided(request, value) ==
    /\ request \in providing
    /\ Called
    /\ providing' = providing \ {request}
    /\ extTrace' = <<[op |-> "content", request |-> request, value |-> value,
                      registered |-> request.uri \in DOMAIN documentData]>>
                       \o provided(documentData, request.uri, value)
    /\ UNCHANGED <<documentData, documentLoader, opening, documentContentProviders,
                   subscribed, handlePool, extHostEditors>>

\* provideTextDocumentContent fails: onUnexpectedError.
ContentFailed(request) ==
    /\ request \in providing
    /\ Called
    /\ providing' = providing \ {request}
    /\ extTrace' = <<[op |-> "content failed", request |-> request],
                     [op |-> "onUnexpectedError"]>>
    /\ UNCHANGED <<documentData, documentLoader, opening, documentContentProviders,
                   subscribed, handlePool, extHostEditors>>

MainThreadIdle ==
    /\ models = <<>>
    /\ codeEditors = <<>>
    /\ editorModel = [e \in EditorIds |-> Null]
    /\ editorFocused = [e \in EditorIds |-> FALSE]
    /\ activeWorkbenchEditor = NoWorkbenchEditor
    /\ currentState = NoState
    /\ toDisposeOnEditorRemove = {}
    /\ listeners = {}
    /\ toDispose = TopLevelSignals
    /\ signalled = {}
    /\ announced = [documents |-> {}, editors |-> {}]
    /\ textEditors = {}
    /\ undisposed = EmptyBag
    /\ mirrorDocuments = {}
    /\ mirrorEditors = {}
    /\ localDocuments = {}
    /\ trace = <<>>
    /\ snapA = NoState /\ snapB = NoState /\ result = NoResult

InitExtHost ==
    /\ MainThreadIdle
    /\ steps = 0
    /\ ExtHostConstructed

NextDocuments ==
    \/ \E uri \in ExtUris, lines \in LineLists : AcceptModelAdd(uri, lines)
    \/ \E uri \in ExtUris : AcceptModelRemoved(uri)
    \/ \E uri \in ExtUris, lines \in LineLists : AcceptModelChanged(uri, lines)
    \/ \E uri \in ExtUris : EnsureDocumentData(uri)
    \/ \E request \in opening, ok \in BOOLEAN : TryOpenDocumentDone(request, ok)
    \/ RegisterTextDocumentContentProvider
    \/ \E handle \in documentContentProviders : DisposeProvider(handle)
    \/ \E handle \in subscribed, uri \in ExtUris : ProviderDidChange(handle, uri)
    \/ \E request \in providing, value \in Contents : ContentProvided(request, value)
    \/ \E request \in providing : ContentFailed(request)

SpecDocuments == InitExtHost /\ [][NextDocuments]_vars

(***************************************************************************)
(* ExtHostEditors.                                                         *)
(***************************************************************************)
\* The lists of visible editor ids the main thread can send.
VisibleIdLists ==
    {<<>>} \cup {<<id>> : id \in EditorIds}
           \cup {ids \in {<<id1, id2>> : id1 \in EditorIds, id2 \in EditorIds} :
                       ids[1] # ids[2]}

\* arrays.equals(one, other)
arrayEquals(one, other) ==
    /\ Len(one) = Len(other)
    /\ \A i \in 1..Len(one) : one[i] = other[i]

\* $acceptActiveEditorAndVisibleEditors(id, visibleIds): the two fields and the
\* events fired, the visible editors first.
acceptActiveEditorAndVisibleEditors(active, visible, id, visibleIds) ==
    [activeEditorId |-> IF active # id THEN id ELSE active,
     visibleEditorIds |-> IF ~arrayEquals(visible, visibleIds) THEN visibleIds ELSE visible,
     trace |-> (IF ~arrayEquals(visible, visibleIds)
                THEN <<[op |-> "onDidChangeVisibleTextEditors", ids |-> visibleIds]>>
                ELSE <<>>)
               \o (IF active # id
                   THEN <<[op |-> "onDidChangeActiveTextEditor", id |-> id]>>
                   ELSE <<>>)]

\* The end of $acceptTextEditorRemove: this._editors.get(id) is undefined for
\* an id that is not registered, and editor.dispose() throws a TypeError.
disposeAndDelete(registry, id, accepted) ==
    IF id \in registry
    THEN [editors |-> registry \ {id},
          activeEditorId |-> accepted.activeEditorId,
          visibleEditorIds |-> accepted.visibleEditorIds,
          trace |-> accepted.trace \o <<[op |-> "dispose", id |-> id]>>]
    ELSE [editors |-> registry,
          activeEditorId |-> accepted.activeEditorId,
          visibleEditorIds |-> accepted.visibleEditorIds,
          trace |-> accepted.trace \o <<[op |-> "throw", message |-> "TypeError"]>>]

\* $acceptTextEditorRemove(id)
acceptTextEditorRemove(registry, active, visible, id) ==
    disposeAndDelete(registry, id,
        acceptActiveEditorAndVisibleEditors(active, visible,
            IF active = id THEN Undefined ELSE active,
            SelectSeq(visible, LAMBDA visibleEditorId : visibleEditorId # id)))

\* $acceptTextEditorAdd(data)
AcceptTextEditorAdd(id) ==
    /\ Called
    /\ hostEditors' = hostEditors \cup {id}
    /\ extTrace' = <<[op |-> "$acceptTextEditorAdd", id |-> id]>>
    /\ UNCHANGED <<activeEditorId, visibleEditorIds, extHostDocuments>>

AcceptActiveEditorAndVisibleEditors(id, visibleIds) ==
    /\ Called
    /\ activeEditorId' =
           acceptActiveEditorAndVisibleEditors(activeEditorId, visibleEditorIds,
                                               id, visibleIds).activeEditorId
    /\ visibleEditorIds' =
           acceptActiveEditorAndVisibleEditors(activeEditorId, visibleEditorIds,
                                               id, visibleIds).visibleEditorIds
    /\ extTrace' = <<[op |-> "$acceptActiveEditorAndVisibleEditors", id |-> id]>>
                       \o acceptActiveEditorAndVisibleEditors(activeEditorId,
                              visibleEditorIds, id, visibleIds).trace
    /\ UNCHANGED <<hostEditors, extHostDocuments>>

TextEditorRemoved(id, r) ==
    /\ Called
    /\ hostEditors' = r.editors
    /\ activeEditorId' = r.activeEditorId
    /\ visibleEditorIds' = r.visibleEditorIds
    /\ extTrace' = <<[op |-> "$acceptTextEditorRemove", id |-> id]>> \o r.trace
    /\ UNCHANGED extHostDocuments

AcceptTextEditorRemove(id) ==
    TextEditorRemoved(id,
        acceptTextEditorRemove(hostEditors, activeEditorId, visibleEditorIds, id))

NextEditors ==
    \/ \E id \in EditorIds : AcceptTextEditorAdd(id)
    \/ \E id \in EditorIds \cup {Undefined}, visibleIds \in VisibleIdLists :
           AcceptActiveEditorAndVisibleEditors(id, visibleIds)
    \/ \E id \in EditorIds : AcceptTextEditorRemove(id)

SpecEditors == InitExtHost /\ [][NextEditors]_vars

(***************************************************************************)
(* Properties.                                                             *)
(***************************************************************************)
Ids(editors) == {editors[i].id : i \in 1..Len(editors)}
Absent(v) == v \in {Null, Undefined}

\* The compute entry and the fire entries of a handler's trace.
ComputeOf(t) == t[CHOOSE i \in Entries(t, "compute") : TRUE]
FiresOf(t) == {t[i] : i \in Entries(t, "onDidChangeState")}
PayloadsOf(t) == {t[i].payload : i \in Entries(t, "$acceptDocumentsAndEditorsDelta")}

\* A delta is empty: its four sequences are, and old and new active editor
\* are the same value.
DeltaIsEmpty(d) ==
    /\ d.removedDocuments = <<>> /\ d.addedDocuments = <<>>
    /\ d.removedEditors = <<>> /\ d.addedEditors = <<>>
    /\ d.oldActiveEditor = d.newActiveEditor

\* The editors of the services that have a model which is not too large.
NonFiltered ==
    {e \in Range(codeEditors) :
        editorModel[e] # Null /\ ~isTooLargeForHavingARichMode(editorModel[e])}
BindingId(e) == e \o "," \o editorModel[e]

\* C1: the payloads sent so far, folded from the empty sets (remove the
\* removed, then add the added), give exactly the document URIs and the
\* binding ids of the stored snapshot.
C1_MirrorIsStoredSnapshot ==
    /\ mirrorDocuments = Range(currentState.documents)
    /\ mirrorEditors = Ids(currentState.editors)

C1_Witness ==
    /\ \E p \in PayloadsOf(trace) :
          /\ p.removedEditors # <<>> /\ p.addedEditors # <<>>
          /\ p.removedDocuments # <<>>
    /\ mirrorEditors # {}
    /\ mirrorDocuments # {}

\* C2: for snapshots A and B, A's documents and bindings without the removed
\* ones and with the added ones of compute(A, B) are exactly B's documents
\* and bindings.
C2_DeltaRoundTrip ==
    result.op = "compute" =>
        /\ (Range(snapA.documents) \ Range(result.delta.removedDocuments))
               \cup Range(result.delta.addedDocuments) = Range(snapB.documents)
        /\ (Range(snapA.editors) \ Range(result.delta.removedEditors))
               \cup Range(result.delta.addedEditors) = Range(snapB.editors)

C2_Witness ==
    /\ result.op = "compute"
    /\ result.delta.removedDocuments # <<>> /\ result.delta.addedDocuments # <<>>
    /\ \E i \in 1..Len(snapA.editors), j \in 1..Len(snapB.editors) :
          /\ snapA.editors[i].editor = snapB.editors[j].editor
          /\ snapA.editors[i].document # snapB.editors[j].document
    /\ Len(snapB.editors) = 2

\* C3: compute(A, A) has four empty sequences, old and new active editor both
\* absent (undefined), and isEmpty true.
C3_SelfDeltaEmpty ==
    result.op = "same" =>
        /\ result.delta.removedDocuments = <<>>
        /\ result.delta.addedDocuments = <<>>
        /\ result.delta.removedEditors = <<>>
        /\ result.delta.addedEditors = <<>>
        /\ result.delta.oldActiveEditor = Undefined
        /\ result.delta.newActiveEditor = Undefined
        /\ result.delta.isEmpty

C3_Witness ==
    /\ result.op = "same"
    /\ ~Absent(snapA.activeEditor)
    /\ Len(snapA.editors) = 2
    /\ Len(snapA.documents) = 2

\* C4: with no prior snapshot, compute returns nothing removed, all of B's
\* documents and bindings as added, no old active editor and B's active
\* editor as the new one.
C4_FirstDeltaAddsAll ==
    result.op = "first" =>
        /\ result.delta.removedDocuments = <<>>
        /\ result.delta.addedDocuments = snapB.documents
        /\ result.delta.removedEditors = <<>>
        /\ result.delta.addedEditors = snapB.editors
        /\ result.delta.oldActiveEditor = Undefined
        /\ result.delta.newActiveEditor = snapB.activeEditor

C4_Witness ==
    /\ result.op = "first"
    /\ ~Absent(snapB.activeEditor)
    /\ Len(snapB.editors) = 2
    /\ Len(snapB.documents) = 2

\* C5: every delta the tracker fires adds or removes a document or a binding,
\* or carries an active editor that changed (from or to an editor, not from
\* absent to absent).
C5_NoNoOpDeltaFired ==
    \A f \in FiresOf(trace) :
        \/ f.delta.removedDocuments # <<>> \/ f.delta.addedDocuments # <<>>
        \/ f.delta.removedEditors # <<>> \/ f.delta.addedEditors # <<>>
        \/ /\ f.delta.oldActiveEditor # f.delta.newActiveEditor
           /\ ~(Absent(f.delta.oldActiveEditor) /\ Absent(f.delta.newActiveEditor))

\* C6: a recomputation with an empty delta leaves the stored snapshot as it
\* was and fires nothing; one with a non-empty delta stores the new snapshot
\* and fires that delta once, the listener finding the new snapshot stored.
C6_StoreThenFire ==
    [][Recomputed(trace') =>
        IF DeltaIsEmpty(ComputeOf(trace').delta)
        THEN currentState' = currentState /\ FiresOf(trace') = {}
        ELSE /\ currentState' = ComputeOf(trace').newState
             /\ Cardinality(Entries(trace', "onDidChangeState")) = 1
             /\ \A f \in FiresOf(trace') :
                   /\ f.delta = ComputeOf(trace').delta
                   /\ f.stored = ComputeOf(trace').newState]_vars

C6_Witness ==
    /\ Recomputed(trace)
    /\ ~DeltaIsEmpty(ComputeOf(trace).delta)
    /\ ComputeOf(trace).delta.removedEditors # <<>>
    /\ currentState = ComputeOf(trace).newState

\* C7: of two recomputations that follow each other with the services
\* unchanged by the second signal, the second fires nothing.
C7_SecondRecomputationSilent ==
    [][(Recomputed(trace) /\ Recomputed(trace') /\ services' = services)
           => FiresOf(trace') = {}]_vars

C7_Witness ==
    /\ Recomputed(trace)
    /\ trace[1].name = "onDidFocusEditor"
    /\ ~trace[1].changed
    /\ trace[1].follows
    /\ ~Absent(currentState.activeEditor)

\* C8: after a signal the tracker is notified of, the stored snapshot is the
\* snapshot of the services as they are.
C8_SignalRecomputes ==
    (trace # <<>> /\ trace[1].op = "signal") => currentState = buildState(Now)

\* C9: a snapshot the tracker builds has no too large document, and only
\* bindings of listed editors with their current model, which is present and
\* not too large; its active editor is one of these bindings or none.  The
\* stored snapshot has no too large document in a list or a binding.
C9_TooLargeExcluded ==
    /\ Recomputed(trace) =>
          LET built == ComputeOf(trace).newState
          IN  /\ \A m \in Range(built.documents) : ~isTooLargeForHavingARichMode(m)
              /\ \A b \in Range(built.editors) :
                    /\ b.editor \in NonFiltered
                    /\ b.document = editorModel[b.editor]
              /\ built.activeEditor \in {Null} \cup Ids(built.editors)
    /\ \A m \in Range(currentState.documents) : ~isTooLargeForHavingARichMode(m)
    /\ \A b \in Range(currentState.editors) :
          b.document # Null /\ ~isTooLargeForHavingARichMode(b.document)

C9_Witness ==
    /\ Recomputed(trace)
    /\ \E i \in 1..(Len(models) - 1) :
          /\ isTooLargeForHavingARichMode(models[i])
          /\ isTooLargeForHavingARichMode(models[i + 1])
    /\ \E e \in Range(codeEditors) :
          /\ editorModel[e] # Null
          /\ isTooLargeForHavingARichMode(editorModel[e])
          /\ editorFocused[e]

\* C10: the active editor of a built snapshot is the binding of a focused
\* editor that is not filtered, if there is one; else the binding of the
\* active workbench editor's control (or of the modified editor of its diff
\* control), if that editor is not filtered; else none.
C10_ActiveEditorResolution ==
    Recomputed(trace) =>
        LET active == ComputeOf(trace).newState.activeEditor
            focused == {e \in NonFiltered : editorFocused[e]}
            candidate == IF activeWorkbenchEditor.kind \in {"code", "diff"}
                         THEN activeWorkbenchEditor.editor ELSE Null
        IN  IF focused # {} THEN active \in {BindingId(e) : e \in focused}
            ELSE IF candidate \in NonFiltered THEN active = BindingId(candidate)
            ELSE active = Null

C10_Witness ==
    /\ Recomputed(trace)
    /\ activeWorkbenchEditor.kind = "diff"
    /\ activeWorkbenchEditor.editor \in NonFiltered
    /\ \A e \in NonFiltered : ~editorFocused[e]
    /\ ComputeOf(trace).newState.activeEditor = BindingId(activeWorkbenchEditor.editor)
    /\ Cardinality(NonFiltered) = 2

\* The position of the one entry of a trace that records operation op.
Position(t, op) == CHOOSE i \in Entries(t, op) : TRUE

\* C11: every binding a fired delta adds has its document among the documents
\* added by that delta or by an earlier one and not removed since, which are
\* the documents the payloads so far leave on the remote side.
C11_DocumentBeforeBinding ==
    \A f \in FiresOf(trace) :
        \A b \in Range(f.delta.addedEditors) : b.document \in mirrorDocuments

\* C12: every handle delivered by an editor-added event, whose document the
\* model service enumerates, has a document that a document-added event
\* delivered before it and no document-removed event has taken away since.
C12_EditorEventAfterDocumentEvent ==
    [][\A i \in Entries(trace', "onTextEditorAdd") :
          \A k \in 1..Len(trace'[i].documents) :
              trace'[i].documents[k] \in Range(models') =>
                  trace'[i].documents[k] \in
                      listenDocuments(localDocuments, SubSeq(trace', 1, i - 1))]_vars

\* C13: a dispatched delta gives one payload and one event of each of the four
\* kinds, the payload first and the events in the order editor-removed,
\* editor-added, document-removed, document-added.
C13_PayloadThenEventsInOrder ==
    FiresOf(trace) # {} =>
        /\ \A op \in {"$acceptDocumentsAndEditorsDelta", "onTextEditorRemove",
                      "onTextEditorAdd", "onDocumentRemove", "onDocumentAdd"} :
              Cardinality(Entries(trace, op)) = 1
        /\ Position(trace, "onDidChangeState")
               < Position(trace, "$acceptDocumentsAndEditorsDelta")
        /\ Position(trace, "$acceptDocumentsAndEditorsDelta")
               < Position(trace, "onTextEditorRemove")
        /\ Position(trace, "onTextEditorRemove") < Position(trace, "onTextEditorAdd")
        /\ Position(trace, "onTextEditorAdd") < Position(trace, "onDocumentRemove")
        /\ Position(trace, "onDocumentRemove") < Position(trace, "onDocumentAdd")

C13_Witness ==
    /\ FiresOf(trace) # {}
    /\ \E i \in Entries(trace, "onTextEditorRemove") : trace[i].ids # <<>>
    /\ \E i \in Entries(trace, "onTextEditorAdd") : trace[i].ids # <<>>
    /\ \E i \in Entries(trace, "onDocumentRemove") : trace[i].uris # <<>>
    /\ \E i \in Entries(trace, "onDocumentAdd") : trace[i].uris = <<>>

\* C14: a handle is disposed only after the payload that names its id as
\* removed is sent and the editor-removed event with its id is fired.
C14_AnnouncedBeforeDisposed ==
    \A i \in Entries(trace, "dispose") :
        /\ \E k \in Entries(trace, "$acceptDocumentsAndEditorsDelta") :
              k < i /\ trace[i].id \in Range(trace[k].payload.removedEditors)
        /\ \E k \in Entries(trace, "onTextEditorRemove") :
              k < i /\ trace[i].id \in Range(trace[k].ids)

\* C15: the registry holds the handle of each binding of the stored snapshot
\* and nothing else, one handle for an id, and the handles created and not
\* disposed are the registered ones, each once.
C15_OneHandlePerBinding ==
    /\ textEditors = {MainThreadTextEditor(b.id, b.document, b.editor) :
                          b \in Range(currentState.editors)}
    /\ \A h1, h2 \in textEditors : h1.id = h2.id => h1 = h2
    /\ undisposed = SetToBag({h.id : h \in textEditors})

C15_Witness ==
    /\ FiresOf(trace) # {}
    /\ \E f \in FiresOf(trace) :
          \E r \in Range(f.delta.removedEditors), a \in Range(f.delta.addedEditors) :
              r.editor = a.editor /\ r.document # a.document
    /\ Cardinality(textEditors) = 2
    /\ Entries(trace, "dispose") # {}

\* The bindings a delivered delta removes that have no handle in the registry
\* the dispatcher had.
Untracked ==
    {b \in Range(result.delta.removedEditors) :
        \A h \in result.registry : h.id # b.id}

\* C16: when a delivered delta removes bindings without a registered handle,
\* no such binding is disposed or named as removed by the payload or by the
\* editor-removed event; the registry loses the handles of the other removed
\* bindings only and gains those of the added ones; the payload and the
\* events carry the rest of the delta.
C16_UntrackedRemovalTolerated ==
    (result.op = "onDelta" /\ Untracked # {}) =>
        LET d == result.delta
            o == result.out
            tracked == SelectSeq(d.removedEditors, LAMBDA b : b \notin Untracked)
        IN  /\ \A b \in Untracked :
                  /\ b.id \notin Range(o.payload.removedEditors)
                  /\ \A i \in Entries(trace, "onTextEditorRemove") :
                        b.id \notin Range(trace[i].ids)
                  /\ \A i \in Entries(trace, "dispose") : trace[i].id # b.id
            /\ o.editors =
                  {h \in result.registry : h.id \notin Ids(d.removedEditors)}
                      \cup {MainThreadTextEditor(b.id, b.document, b.editor) :
                               b \in Range(d.addedEditors)}
            /\ o.payload.removedEditors = [i \in 1..Len(tracked) |-> tracked[i].id]
            /\ o.payload.addedEditors =
                  [i \in 1..Len(d.addedEditors) |->
                      [id |-> d.addedEditors[i].id,
                       document |-> d.addedEditors[i].document]]
            /\ o.payload.removedDocuments = d.removedDocuments
            /\ o.payload.addedDocuments =
                  [i \in 1..Len(d.addedDocuments) |-> [url |-> d.addedDocuments[i]]]
            /\ o.payload.newActiveEditor = d.newActiveEditor
            /\ \A op \in {"$acceptDocumentsAndEditorsDelta", "onTextEditorRemove",
                          "onTextEditorAdd", "onDocumentRemove", "onDocumentAdd"} :
                  Cardinality(Entries(trace, op)) = 1

C16_Witness ==
    /\ result.op = "onDelta"
    /\ Untracked # {}
    /\ \E b \in Range(result.delta.removedEditors) : b \notin Untracked
    /\ result.delta.addedEditors # <<>>
    /\ result.out.payload.removedEditors # <<>>

\* C17: a signal that takes away only editors left out of the snapshot, while
\* the stored snapshot is absent or the snapshot of the services, fires no
\* delta, sends no payload, fires no event and leaves the stored snapshot and
\* the registry as they were.
C17_FilteredEditorRemovedSilently ==
    [][(/\ Range(codeEditors) \ Range(codeEditors') # {}
        /\ \A e \in Range(codeEditors) \ Range(codeEditors') : Filtered(e)
        /\ (currentState = NoState \/ currentState = buildState(Now)))
       => /\ currentState' = currentState
          /\ textEditors' = textEditors
          /\ UNCHANGED <<undisposed, mirrorDocuments, mirrorEditors, localDocuments>>
          /\ \A i \in 1..Len(trace') : trace'[i].op \in {"signal", "compute"}]_vars

C17_Witness ==
    /\ Recomputed(trace)
    /\ trace[1].name = "onCodeEditorRemove"
    /\ trace[1].idle
    /\ FiresOf(trace) = {}
    /\ currentState.editors # <<>>

\* C18: while the tracker is not disposed, the editors with a registered
\* per-editor listener are the editors signalled added and not yet signalled
\* removed, and they are the keys of _toDisposeOnEditorRemove: a listener is
\* released with the removal of its editor, and no entry outlives its listener.
C18_SubscriptionsPaired ==
    toDispose # {} =>
        /\ listeners = signalled
        /\ toDisposeOnEditorRemove = listeners

C18_Witness ==
    /\ toDispose # {}
    /\ Recomputed(trace)
    /\ trace[1].name = "onCodeEditorRemove"
    /\ Cardinality(listeners) = 1
    /\ Cardinality(signalled) = 1

\* C19: after dispose() no listener of the tracker is registered, neither a
\* top-level one nor a per-editor one, and no signal makes it recompute.
C19_DisposeLeavesNoListener ==
    toDispose = {} => (listeners = {} /\ ~Recomputed(trace))

\* C20: a fired delta adds no document and no binding that the deltas before
\* it added and did not remove, removes only documents and bindings they
\* added and did not remove, and names nothing twice.
C20_NoDuplicateAddNoUnmatchedRemove ==
    [][\A f \in FiresOf(trace') :
          /\ Range(f.delta.addedDocuments) \cap announced.documents = {}
          /\ Range(f.delta.removedDocuments) \subseteq announced.documents
          /\ Ids(f.delta.addedEditors) \cap announced.editors = {}
          /\ Ids(f.delta.removedEditors) \subseteq announced.editors
          /\ Cardinality(Range(f.delta.addedDocuments)) = Len(f.delta.addedDocuments)
          /\ Cardinality(Range(f.delta.removedDocuments)) = Len(f.delta.removedDocuments)
          /\ Cardinality(Ids(f.delta.addedEditors)) = Len(f.delta.addedEditors)
          /\ Cardinality(Ids(f.delta.removedEditors)) = Len(f.delta.removedEditors)]_vars

C20_Witness ==
    /\ \E f \in FiresOf(trace) :
          /\ f.delta.removedDocuments # <<>>
          /\ f.delta.removedEditors # <<>> /\ f.delta.addedEditors # <<>>
    /\ Cardinality(announced.documents) = 1
    /\ Cardinality(announced.editors) = 1

(***************************************************************************)
(* The delta of two snapshots, list by list.                               *)
(***************************************************************************)
NoDuplicates(seq) == \A i, j \in 1..Len(seq) : i # j => seq[i] # seq[j]

\* seq lists exactly the elements of from that are not in other, each once.
ExactlyThoseNotIn(seq, from, other) ==
    /\ Range(seq) = Range(from) \ Range(other)
    /\ NoDuplicates(seq)

ExampleBefore ==
    DocumentAndEditorState(<<"a", "b">>, <<EditorAndModel("e1", "a")>>, Null)
ExampleAfter ==
    DocumentAndEditorState(<<"a">>, <<EditorAndModel("e1", "a"), EditorAndModel("e2", "a")>>, Null)

\* C22: the delta of two snapshots is exact and minimal: removedDocuments are
\* the documents of the first that are not in the second, addedDocuments the
\* documents of the second that are not in the first, and likewise the
\* bindings, compared by editor id and document; what is in both snapshots is
\* in neither list and no element is both removed and added.  From documents
\* a, b with e1 on a to document a with e1 and e2 on a the delta removes b,
\* adds no document, removes no editor and adds e2 on a.
C22_DeltaExact ==
    result.op = "compute" =>
        /\ ExactlyThoseNotIn(result.delta.removedDocuments, snapA.documents, snapB.documents)
        /\ ExactlyThoseNotIn(result.delta.addedDocuments, snapB.documents, snapA.documents)
        /\ ExactlyThoseNotIn(result.delta.removedEditors, snapA.editors, snapB.editors)
        /\ ExactlyThoseNotIn(result.delta.addedEditors, snapB.editors, snapA.editors)
        /\ Range(result.delta.removedDocuments) \cap Range(result.delta.addedDocuments) = {}
        /\ Range(result.delta.removedEditors) \cap Range(result.delta.addedEditors) = {}
        /\ (snapA = ExampleBefore /\ snapB = ExampleAfter) =>
               /\ result.delta.removedDocuments = <<"b">>
               /\ result.delta.addedDocuments = <<>>
               /\ result.delta.removedEditors = <<>>
               /\ result.delta.addedEditors = <<EditorAndModel("e2", "a")>>

C22_Witness ==
    /\ result.op = "compute"
    /\ snapA = ExampleBefore
    /\ snapB = ExampleAfter
    /\ result.delta.removedDocuments = <<"b">>
    /\ result.delta.addedEditors = <<EditorAndModel("e2", "a")>>

\* C23: with a first snapshot present, when its active editor differs from
\* the second's (also when exactly one of them has none) the delta reports
\* the first's as oldActiveEditor and the second's as newActiveEditor and is
\* not empty; when they are the same, both are reported absent.
C23_ActiveTransition ==
    result.op = "compute" =>
        IF snapA.activeEditor # snapB.activeEditor
        THEN /\ result.delta.oldActiveEditor = snapA.activeEditor
             /\ result.delta.newActiveEditor = snapB.activeEditor
             /\ ~result.delta.isEmpty
        ELSE /\ result.delta.oldActiveEditor = Undefined
             /\ result.delta.newActiveEditor = Undefined

\* Only the active editor changes, from none to e1 showing a.
C23_Witness ==
    /\ result.op = "compute"
    /\ snapA.activeEditor = Null
    /\ snapB.activeEditor = EditorAndModel("e1", "a").id
    /\ snapA.documents = snapB.documents
    /\ snapA.editors = snapB.editors
    /\ result.delta.oldActiveEditor = Null
    /\ result.delta.newActiveEditor = EditorAndModel("e1", "a").id
    /\ ~result.delta.isEmpty

(***************************************************************************)
(* The form of the stored snapshot.                                        *)
(***************************************************************************)
\* seq is strictly increasing under the comparator named cmp.
StrictlySorted(seq, cmp) ==
    \A i \in 1..(Len(seq) - 1) : Call(cmp, seq[i], seq[i + 1]) < 0

SnapshotWellFormed(state) ==
    /\ StrictlySorted(state.documents, "compareModels")
    /\ StrictlySorted(state.editors, "compareEditors")
    /\ NoDuplicates(state.documents)
    /\ NoDuplicates(state.editors)
    /\ \A i, j \in 1..Len(state.editors) :
           i # j => state.editors[i].editor # state.editors[j].editor

\* C25: the stored snapshot always has its documents in increasing order of
\* URI and its bindings in increasing order of editor id, then URI, without
\* duplicates and with each editor in one binding at most; a recomputation
\* whose delta is empty leaves the stored sequences as they were.
C25_StoredSnapshotSorted ==
    /\ []SnapshotWellFormed(currentState)
    /\ [][(Recomputed(trace') /\ DeltaIsEmpty(ComputeOf(trace').delta))
             => /\ currentState'.documents = currentState.documents
                /\ currentState'.editors = currentState.editors]_vars

\* The model service lists b before a; the stored snapshot has a before b and
\* a binding, and the last recomputation found nothing to report.
C25_Witness ==
    /\ Len(models) >= 2 /\ models[1] = "b" /\ models[2] = "a"
    /\ currentState.documents = <<"a", "b">>
    /\ Len(currentState.editors) = 1
    /\ Recomputed(trace)
    /\ DeltaIsEmpty(ComputeOf(trace).delta)

(***************************************************************************)
(* A recomputation inside a listener.                                      *)
(***************************************************************************)
\* The positions of the entries of op in a trace, in order.
First(t, op) == CHOOSE i \in Entries(t, op) : \A j \in Entries(t, op) : i <= j
Last(t, op) == CHOOSE i \in Entries(t, op) : \A j \in Entries(t, op) : j <= i

\* The payload _onDelta sends for a delta, but for the ids of the handles.
PayloadOf(p, d) ==
    /\ p.newActiveEditor = d.newActiveEditor
    /\ p.removedDocuments = d.removedDocuments
    /\ p.addedDocuments = Map(d.addedDocuments, toModelAddData)
    /\ p.addedEditors = Map(d.addedEditors, LAMBDA b : [id |-> b.id, document |-> b.document])

\* C24: when a listener called while a delta is delivered changes the
\* services and so starts a recomputation inside the outer one, the inner
\* recomputation ends and its delta is the difference from the snapshot the
\* outer one stored; the payload of the outer delta is sent before the
\* payload of the inner one; and when the outer handler returns, the stored
\* snapshot is the snapshot of the services as they are and the registry
\* holds the handles of its bindings, each once.
C24_NestedRecomputation ==
    [][Cardinality(Entries(trace', "compute")) = 2 =>
        /\ trace'[First(trace', "onDidChangeState")].stored
               = trace'[First(trace', "compute")].newState
        /\ trace'[Last(trace', "compute")].delta
               = compute(trace'[First(trace', "compute")].newState,
                         trace'[Last(trace', "compute")].newState)
        /\ PayloadOf(trace'[First(trace', "$acceptDocumentsAndEditorsDelta")].payload,
                     trace'[First(trace', "compute")].delta)
        /\ First(trace', "$acceptDocumentsAndEditorsDelta") < Last(trace', "compute")
        /\ (Cardinality(Entries(trace', "$acceptDocumentsAndEditorsDelta")) = 2 =>
               PayloadOf(trace'[Last(trace', "$acceptDocumentsAndEditorsDelta")].payload,
                         trace'[Last(trace', "compute")].delta))
        /\ currentState' = buildState(Now')
        /\ textEditors' = {MainThreadTextEditor(b.id, b.document, b.editor) :
                               b \in Range(currentState'.editors)}
        /\ \A h1, h2 \in textEditors' : h1.id = h2.id => h1 = h2
        /\ undisposed' = SetToBag({h.id : h \in textEditors'})]_vars

\* A listener of onTextEditorAdd gave the added editor another document: two
\* payloads were sent, the second one taking the first binding away again.
C24_Witness ==
    /\ Cardinality(Entries(trace, "compute")) = 2
    /\ Cardinality(Entries(trace, "$acceptDocumentsAndEditorsDelta")) = 2
    /\ trace[Last(trace, "signal")].name = "onDidChangeModel"
    /\ Last(trace, "signal") < Last(trace, "onDocumentAdd")
    /\ trace[Last(trace, "compute")].delta.removedEditors # <<>>
    /\ trace[Last(trace, "compute")].delta.addedEditors # <<>>
    /\ Cardinality(textEditors) = 1

(***************************************************************************)
(* The extension host.                                                     *)
(***************************************************************************)
\* The last call on the extension host was op.
ExtCall(t, op) == t # <<>> /\ t[1].op = op

\* C21: $acceptModelAdd for a URI that is registered fails with an error,
\* leaves the registry as it was and fires no onDidAddDocument;
\* $acceptModelRemoved for a URI that is not registered fails with an error,
\* leaves the registry as it was and fires no onDidRemoveDocument.
C21_RejectedCallChangesNothing ==
    [][/\ (ExtCall(extTrace', "$acceptModelAdd") /\ extTrace'[1].uri \in DOMAIN documentData)
            => /\ Entries(extTrace', "throw") # {}
               /\ documentData' = documentData
               /\ Entries(extTrace', "onDidAddDocument") = {}
       /\ (ExtCall(extTrace', "$acceptModelRemoved")
               /\ extTrace'[1].uri \notin DOMAIN documentData)
            => /\ Entries(extTrace', "throw") # {}
               /\ documentData' = documentData
               /\ Entries(extTrace', "onDidRemoveDocument") = {}]_vars

\* A document was announced again with other lines: the call failed and the
\* registry has the lines it had.
C21_Witness ==
    /\ ExtCall(extTrace, "$acceptModelAdd")
    /\ Entries(extTrace, "throw") # {}
    /\ extTrace[1].uri \in DOMAIN documentData
    /\ documentData[extTrace[1].uri] # extTrace[1].lines

\* The $tryOpenDocument requests for uri that are not completed.
Outstanding(uri) == {request \in opening : request.uri = uri}

\* C26: at most one $tryOpenDocument request for a URI is outstanding, and
\* _documentLoader has an entry for a URI exactly while its request is; a
\* call of ensureDocumentData for a registered URI sends no request, a call
\* while a request for the URI is outstanding sends none and returns the
\* promise of that request, any other call sends one request; when a request
\* completes, with success or not, the entry of its URI is removed.
C26_OneRequestPerUri ==
    /\ [](/\ \A uri \in ExtUris : Cardinality(Outstanding(uri)) <= 1
          /\ DOMAIN documentLoader = {request.uri : request \in opening}
          /\ \A request \in opening : documentLoader[request.uri] = request.promise)
    /\ [][/\ ExtCall(extTrace', "ensureDocumentData") =>
               IF extTrace'[1].uri \in DOMAIN documentData
               THEN opening' = opening /\ extTrace'[1].returned = Cached
               ELSE IF Outstanding(extTrace'[1].uri) # {}
               THEN /\ opening' = opening
                    /\ \A request \in Outstanding(extTrace'[1].uri) :
                          extTrace'[1].returned = Promise(request.promise)
               ELSE /\ Cardinality(opening' \ opening) = 1
                    /\ \A request \in opening' \ opening :
                          /\ request.uri = extTrace'[1].uri
                          /\ extTrace'[1].returned = Promise(request.promise)
          /\ ExtCall(extTrace', "$tryOpenDocument done") =>
               /\ extTrace'[1].uri \notin DOMAIN documentLoader'
               /\ \A request \in opening' : request.uri # extTrace'[1].uri]_vars

\* A call found the request of an earlier call outstanding, sent none and
\* returned the promise of that request.
C26_Witness ==
    /\ ExtCall(extTrace, "ensureDocumentData")
    /\ extTrace[1].requests = {}
    /\ extTrace[1].returned.kind = "promise"
    /\ Cardinality(opening) = 1
    /\ \A request \in opening : request.promise > 0

\* C28: the listener of a provider's change signal asks for the content only
\* if the document is registered then; $onVirtualDocumentChange is sent only
\* when the content of such a request arrives, the document is registered
\* then as well and its lines differ from the lines of the content; when the
\* document was removed after the signal and is not registered as the
\* content arrives, nothing is sent and no error is raised.
C28_VirtualChangeOnlyForRegistered ==
    [][/\ ExtCall(extTrace', "onDidChange") =>
               (extTrace'[1].requests # {} <=> extTrace'[1].uri \in DOMAIN documentData)
       /\ Entries(extTrace', "$onVirtualDocumentChange") # {} =>
               /\ ExtCall(extTrace', "content")
               /\ extTrace'[1].request \in providing
               /\ extTrace'[1].request.uri \in DOMAIN documentData
               /\ ~equalLines(documentData[extTrace'[1].request.uri],
                              fromString(extTrace'[1].value))
       /\ (ExtCall(extTrace', "content") /\ extTrace'[1].request.removed
               /\ extTrace'[1].request.uri \notin DOMAIN documentData)
            => /\ Entries(extTrace', "$onVirtualDocumentChange") = {}
               /\ Entries(extTrace', "throw") = {}
               /\ Entries(extTrace', "onUnexpectedError") = {}]_vars

\* The content arrives for a document that was registered at the signal and
\* removed since: nothing was sent.
C28_Witness ==
    /\ ExtCall(extTrace, "content")
    /\ extTrace[1].request.removed
    /\ ~extTrace[1].registered
    /\ extTrace[1].value # <<>>
    /\ Len(extTrace) = 1

\* C27: after $acceptTextEditorRemove(id) for a registered id, id is not
\* the active id, not among the visible ids and not in the registry, and the
\* events of the visible and the active editors come before the disposal;
\* for an id that is not registered the call leaves the active id, the
\* visible ids and the registry as they were.
C27_RemoveLeavesNoTrace ==
    [][ExtCall(extTrace', "$acceptTextEditorRemove") =>
          IF extTrace'[1].id \in hostEditors
          THEN /\ activeEditorId' # extTrace'[1].id
               /\ extTrace'[1].id \notin Range(visibleEditorIds')
               /\ extTrace'[1].id \notin hostEditors'
               /\ Entries(extTrace', "dispose") # {}
               /\ \A i \in Entries(extTrace', "onDidChangeVisibleTextEditors")
                           \cup Entries(extTrace', "onDidChangeActiveTextEditor") :
                      \A j \in Entries(extTrace', "dispose") : i < j
          ELSE /\ activeEditorId' = activeEditorId
               /\ visibleEditorIds' = visibleEditorIds
               /\ hostEditors' = hostEditors]_vars

====
